---- MODULE Spec2Model ----
(***************************************************************************)
(* Model of the subtitle markup parser of modules/codec/subsdec.c:         *)
(* ParseSubtitles and its helpers AppendCharacter, ConsumeAttribute,       *)
(* GetColor, DuplicateAndPushStyle, PopStyle, NewTextSegmentPushStyle and  *)
(* NewTextSegmentPopStyle.                                                 *)
(*                                                                         *)
(* A C string is a sequence of one-character strings; the cursor           *)
(* psz_subtitle is a 1-based index into it and index Len+1 is the          *)
(* terminating NUL.  Segments and styles live in two heaps (sequences in   *)
(* allocation order); a pointer is an index into its heap and 0 is NULL.   *)
(* Every allocation of a step may fail: a step is taken with a number f,   *)
(* the ordinal of the allocation of that step that fails (0: none).        *)
(***************************************************************************)
EXTENDS Integers, Sequences, FiniteSets, TLC

\* ------------------------------------------------------------------ bounds
\* longest input built from Tokens, in tokens
MaxTokens == 2
\* number of steps of one parse in which an allocation may fail
MaxFailures == 1

\* ------------------------------------------------------------- characters
NUL == "NUL"
NULL == 0
\* a NULL char pointer, where a string may also be stored
NullStr == <<"(null)">>

UpperCase ==
  <<"A","B","C","D","E","F","G","H","I","J","K","L","M",
    "N","O","P","Q","R","S","T","U","V","W","X","Y","Z">>
LowerCase ==
  <<"a","b","c","d","e","f","g","h","i","j","k","l","m",
    "n","o","p","q","r","s","t","u","v","w","x","y","z">>
Range(q) == {q[k] : k \in DOMAIN q}

\* isalpha() in the C locale
isalpha(c) == c \in Range(UpperCase) \cup Range(LowerCase)
\* isspace() in the C locale
isspace(c) == c \in {" ", "\t", "\n", "\r", "\f"}
isdigit(c) == c \in {"0","1","2","3","4","5","6","7","8","9"}
DigitValue(c) ==
  CASE c = "0" -> 0 [] c = "1" -> 1 [] c = "2" -> 2 [] c = "3" -> 3
    [] c = "4" -> 4 [] c = "5" -> 5 [] c = "6" -> 6 [] c = "7" -> 7
    [] c = "8" -> 8 [] c = "9" -> 9

\* tolower(), as strcasecmp and strncasecmp apply it to both sides
tolower(c) ==
  IF c \in Range(UpperCase)
  THEN LowerCase[CHOOSE k \in DOMAIN UpperCase : UpperCase[k] = c]
  ELSE c

Min(a, b) == IF a < b THEN a ELSE b

\* the character at index i of the C string s (NUL at and after its end)
At(s, i) == IF i >= 1 /\ i <= Len(s) THEN s[i] ELSE NUL

\* strncasecmp( s + p - 1, lit, n ) == 0
strncasecmp_eq(s, p, lit, n) ==
  /\ \A k \in 1..Min(n, Len(lit)) : tolower(At(s, p + k - 1)) = tolower(lit[k])
  /\ n > Len(lit) => At(s, p + Len(lit)) = NUL

\* strncmp( s + p - 1, lit, n ) == 0
strncmp_eq(s, p, lit, n) ==
  /\ \A k \in 1..Min(n, Len(lit)) : At(s, p + k - 1) = lit[k]
  /\ n > Len(lit) => At(s, p + Len(lit)) = NUL

\* strcasecmp( a, b ) == 0 for two whole strings
strcasecmp_eq(a, b) ==
  /\ Len(a) = Len(b)
  /\ \A k \in 1..Len(a) : tolower(a[k]) = tolower(b[k])

\* strchr( s + p - 1, c ): the index of the first c at or after p, 0 if none
strchr(s, p, c) ==
  IF \E q \in p..Len(s) : s[q] = c
  THEN CHOOSE q \in p..Len(s) : s[q] = c /\ \A r \in p..(q - 1) : s[r] # c
  ELSE NULL

\* while ( *p && Skip(*p) ) p++ for the loops of ConsumeAttribute: the first
\* index at or after p whose character is NUL or is not to be skipped
SkipIsalpha(s, p) ==
  CHOOSE q \in p..(Len(s) + 1) :
    /\ ~isalpha(At(s, q))
    /\ \A r \in p..(q - 1) : isalpha(s[r])
SkipIsspace(s, p) ==
  CHOOSE q \in p..(Len(s) + 1) :
    /\ ~isspace(At(s, q))
    /\ \A r \in p..(q - 1) : isspace(s[r])
SkipBlank(s, p) ==
  CHOOSE q \in p..(Len(s) + 1) :
    /\ At(s, q) # " "
    /\ \A r \in p..(q - 1) : s[r] = " "
SkipUntil(s, p, c) ==
  CHOOSE q \in p..(Len(s) + 1) :
    /\ At(s, q) \in {c, NUL}
    /\ \A r \in p..(q - 1) : s[r] # c
SkipUntilIsalpha(s, p) ==
  CHOOSE q \in p..(Len(s) + 1) :
    /\ (At(s, q) = NUL \/ isalpha(At(s, q)))
    /\ \A r \in p..(q - 1) : ~isalpha(s[r])

\* atoi(): optional white space, optional sign, then decimal digits
RECURSIVE atoi_digits(_, _, _)
atoi_digits(s, p, acc) ==
  IF isdigit(At(s, p)) THEN atoi_digits(s, p + 1, 10 * acc + DigitValue(s[p]))
  ELSE acc
atoi(s) ==
  LET p == SkipIsspace(s, 1) IN
  IF At(s, p) = "-" THEN 0 - atoi_digits(s, p + 1, 0)
  ELSE IF At(s, p) = "+" THEN atoi_digits(s, p + 1, 0)
  ELSE atoi_digits(s, p, 0)

\* ------------------------------------------------------------ color table
p_html_colors ==
  <<
    [psz_name |-> <<"A","q","u","a">>, i_value |-> 65535],
    [psz_name |-> <<"B","l","a","c","k">>, i_value |-> 0],
    [psz_name |-> <<"B","l","u","e">>, i_value |-> 255],
    [psz_name |-> <<"F","u","c","h","s","i","a">>, i_value |-> 16711935],
    [psz_name |-> <<"G","r","a","y">>, i_value |-> 8421504],
    [psz_name |-> <<"G","r","e","e","n">>, i_value |-> 32768],
    [psz_name |-> <<"L","i","m","e">>, i_value |-> 65280],
    [psz_name |-> <<"M","a","r","o","o","n">>, i_value |-> 8388608],
    [psz_name |-> <<"N","a","v","y">>, i_value |-> 128],
    [psz_name |-> <<"O","l","i","v","e">>, i_value |-> 8421376],
    [psz_name |-> <<"P","u","r","p","l","e">>, i_value |-> 8388736],
    [psz_name |-> <<"R","e","d">>, i_value |-> 16711680],
    [psz_name |-> <<"S","i","l","v","e","r">>, i_value |-> 12632256],
    [psz_name |-> <<"T","e","a","l">>, i_value |-> 32896],
    [psz_name |-> <<"W","h","i","t","e">>, i_value |-> 16777215],
    [psz_name |-> <<"Y","e","l","l","o","w">>, i_value |-> 16776960],
    [psz_name |-> <<"A","l","i","c","e","B","l","u","e">>, i_value |-> 15792383],
    [psz_name |-> <<"A","n","t","i","q","u","e","W","h","i","t","e">>, i_value |-> 16444375],
    [psz_name |-> <<"A","q","u","a">>, i_value |-> 65535],
    [psz_name |-> <<"A","q","u","a","m","a","r","i","n","e">>, i_value |-> 8388564],
    [psz_name |-> <<"A","z","u","r","e">>, i_value |-> 15794175],
    [psz_name |-> <<"B","e","i","g","e">>, i_value |-> 16119260],
    [psz_name |-> <<"B","i","s","q","u","e">>, i_value |-> 16770244],
    [psz_name |-> <<"B","l","a","c","k">>, i_value |-> 0],
    [psz_name |-> <<"B","l","a","n","c","h","e","d","A","l","m","o","n","d">>, i_value |-> 16772045],
    [psz_name |-> <<"B","l","u","e">>, i_value |-> 255],
    [psz_name |-> <<"B","l","u","e","V","i","o","l","e","t">>, i_value |-> 9055202],
    [psz_name |-> <<"B","r","o","w","n">>, i_value |-> 10824234],
    [psz_name |-> <<"B","u","r","l","y","W","o","o","d">>, i_value |-> 14596231],
    [psz_name |-> <<"C","a","d","e","t","B","l","u","e">>, i_value |-> 6266528],
    [psz_name |-> <<"C","h","a","r","t","r","e","u","s","e">>, i_value |-> 8388352],
    [psz_name |-> <<"C","h","o","c","o","l","a","t","e">>, i_value |-> 13789470],
    [psz_name |-> <<"C","o","r","a","l">>, i_value |-> 16744272],
    [psz_name |-> <<"C","o","r","n","f","l","o","w","e","r","B","l","u","e">>, i_value |-> 6591981],
    [psz_name |-> <<"C","o","r","n","s","i","l","k">>, i_value |-> 16775388],
    [psz_name |-> <<"C","r","i","m","s","o","n">>, i_value |-> 14423100],
    [psz_name |-> <<"C","y","a","n">>, i_value |-> 65535],
    [psz_name |-> <<"D","a","r","k","B","l","u","e">>, i_value |-> 139],
    [psz_name |-> <<"D","a","r","k","C","y","a","n">>, i_value |-> 35723],
    [psz_name |-> <<"D","a","r","k","G","o","l","d","e","n","R","o","d">>, i_value |-> 12092939],
    [psz_name |-> <<"D","a","r","k","G","r","a","y">>, i_value |-> 11119017],
    [psz_name |-> <<"D","a","r","k","G","r","e","y">>, i_value |-> 11119017],
    [psz_name |-> <<"D","a","r","k","G","r","e","e","n">>, i_value |-> 25600],
    [psz_name |-> <<"D","a","r","k","K","h","a","k","i">>, i_value |-> 12433259],
    [psz_name |-> <<"D","a","r","k","M","a","g","e","n","t","a">>, i_value |-> 9109643],
    [psz_name |-> <<"D","a","r","k","O","l","i","v","e","G","r","e","e","n">>, i_value |-> 5597999],
    [psz_name |-> <<"D","a","r","k","o","r","a","n","g","e">>, i_value |-> 16747520],
    [psz_name |-> <<"D","a","r","k","O","r","c","h","i","d">>, i_value |-> 10040012],
    [psz_name |-> <<"D","a","r","k","R","e","d">>, i_value |-> 9109504],
    [psz_name |-> <<"D","a","r","k","S","a","l","m","o","n">>, i_value |-> 15308410],
    [psz_name |-> <<"D","a","r","k","S","e","a","G","r","e","e","n">>, i_value |-> 9419919],
    [psz_name |-> <<"D","a","r","k","S","l","a","t","e","B","l","u","e">>, i_value |-> 4734347],
    [psz_name |-> <<"D","a","r","k","S","l","a","t","e","G","r","a","y">>, i_value |-> 3100495],
    [psz_name |-> <<"D","a","r","k","S","l","a","t","e","G","r","e","y">>, i_value |-> 3100495],
    [psz_name |-> <<"D","a","r","k","T","u","r","q","u","o","i","s","e">>, i_value |-> 52945],
    [psz_name |-> <<"D","a","r","k","V","i","o","l","e","t">>, i_value |-> 9699539],
    [psz_name |-> <<"D","e","e","p","P","i","n","k">>, i_value |-> 16716947],
    [psz_name |-> <<"D","e","e","p","S","k","y","B","l","u","e">>, i_value |-> 49151],
    [psz_name |-> <<"D","i","m","G","r","a","y">>, i_value |-> 6908265],
    [psz_name |-> <<"D","i","m","G","r","e","y">>, i_value |-> 6908265],
    [psz_name |-> <<"D","o","d","g","e","r","B","l","u","e">>, i_value |-> 2003199],
    [psz_name |-> <<"F","i","r","e","B","r","i","c","k">>, i_value |-> 11674146],
    [psz_name |-> <<"F","l","o","r","a","l","W","h","i","t","e">>, i_value |-> 16775920],
    [psz_name |-> <<"F","o","r","e","s","t","G","r","e","e","n">>, i_value |-> 2263842],
    [psz_name |-> <<"F","u","c","h","s","i","a">>, i_value |-> 16711935],
    [psz_name |-> <<"G","a","i","n","s","b","o","r","o">>, i_value |-> 14474460],
    [psz_name |-> <<"G","h","o","s","t","W","h","i","t","e">>, i_value |-> 16316671],
    [psz_name |-> <<"G","o","l","d">>, i_value |-> 16766720],
    [psz_name |-> <<"G","o","l","d","e","n","R","o","d">>, i_value |-> 14329120],
    [psz_name |-> <<"G","r","a","y">>, i_value |-> 8421504],
    [psz_name |-> <<"G","r","e","y">>, i_value |-> 8421504],
    [psz_name |-> <<"G","r","e","e","n">>, i_value |-> 32768],
    [psz_name |-> <<"G","r","e","e","n","Y","e","l","l","o","w">>, i_value |-> 11403055],
    [psz_name |-> <<"H","o","n","e","y","D","e","w">>, i_value |-> 15794160],
    [psz_name |-> <<"H","o","t","P","i","n","k">>, i_value |-> 16738740],
    [psz_name |-> <<"I","n","d","i","a","n","R","e","d">>, i_value |-> 13458524],
    [psz_name |-> <<"I","n","d","i","g","o">>, i_value |-> 4915330],
    [psz_name |-> <<"I","v","o","r","y">>, i_value |-> 16777200],
    [psz_name |-> <<"K","h","a","k","i">>, i_value |-> 15787660],
    [psz_name |-> <<"L","a","v","e","n","d","e","r">>, i_value |-> 15132410],
    [psz_name |-> <<"L","a","v","e","n","d","e","r","B","l","u","s","h">>, i_value |-> 16773365],
    [psz_name |-> <<"L","a","w","n","G","r","e","e","n">>, i_value |-> 8190976],
    [psz_name |-> <<"L","e","m","o","n","C","h","i","f","f","o","n">>, i_value |-> 16775885],
    [psz_name |-> <<"L","i","g","h","t","B","l","u","e">>, i_value |-> 11393254],
    [psz_name |-> <<"L","i","g","h","t","C","o","r","a","l">>, i_value |-> 15761536],
    [psz_name |-> <<"L","i","g","h","t","C","y","a","n">>, i_value |-> 14745599],
    [psz_name |-> <<"L","i","g","h","t","G","o","l","d","e","n","R","o","d","Y","e","l","l","o","w">>, i_value |-> 16448210],
    [psz_name |-> <<"L","i","g","h","t","G","r","a","y">>, i_value |-> 13882323],
    [psz_name |-> <<"L","i","g","h","t","G","r","e","y">>, i_value |-> 13882323],
    [psz_name |-> <<"L","i","g","h","t","G","r","e","e","n">>, i_value |-> 9498256],
    [psz_name |-> <<"L","i","g","h","t","P","i","n","k">>, i_value |-> 16758465],
    [psz_name |-> <<"L","i","g","h","t","S","a","l","m","o","n">>, i_value |-> 16752762],
    [psz_name |-> <<"L","i","g","h","t","S","e","a","G","r","e","e","n">>, i_value |-> 2142890],
    [psz_name |-> <<"L","i","g","h","t","S","k","y","B","l","u","e">>, i_value |-> 8900346],
    [psz_name |-> <<"L","i","g","h","t","S","l","a","t","e","G","r","a","y">>, i_value |-> 7833753],
    [psz_name |-> <<"L","i","g","h","t","S","l","a","t","e","G","r","e","y">>, i_value |-> 7833753],
    [psz_name |-> <<"L","i","g","h","t","S","t","e","e","l","B","l","u","e">>, i_value |-> 11584734],
    [psz_name |-> <<"L","i","g","h","t","Y","e","l","l","o","w">>, i_value |-> 16777184],
    [psz_name |-> <<"L","i","m","e">>, i_value |-> 65280],
    [psz_name |-> <<"L","i","m","e","G","r","e","e","n">>, i_value |-> 3329330],
    [psz_name |-> <<"L","i","n","e","n">>, i_value |-> 16445670],
    [psz_name |-> <<"M","a","g","e","n","t","a">>, i_value |-> 16711935],
    [psz_name |-> <<"M","a","r","o","o","n">>, i_value |-> 8388608],
    [psz_name |-> <<"M","e","d","i","u","m","A","q","u","a","M","a","r","i","n","e">>, i_value |-> 6737322],
    [psz_name |-> <<"M","e","d","i","u","m","B","l","u","e">>, i_value |-> 205],
    [psz_name |-> <<"M","e","d","i","u","m","O","r","c","h","i","d">>, i_value |-> 12211667],
    [psz_name |-> <<"M","e","d","i","u","m","P","u","r","p","l","e">>, i_value |-> 9662680],
    [psz_name |-> <<"M","e","d","i","u","m","S","e","a","G","r","e","e","n">>, i_value |-> 3978097],
    [psz_name |-> <<"M","e","d","i","u","m","S","l","a","t","e","B","l","u","e">>, i_value |-> 8087790],
    [psz_name |-> <<"M","e","d","i","u","m","S","p","r","i","n","g","G","r","e","e","n">>, i_value |-> 64154],
    [psz_name |-> <<"M","e","d","i","u","m","T","u","r","q","u","o","i","s","e">>, i_value |-> 4772300],
    [psz_name |-> <<"M","e","d","i","u","m","V","i","o","l","e","t","R","e","d">>, i_value |-> 13047173],
    [psz_name |-> <<"M","i","d","n","i","g","h","t","B","l","u","e">>, i_value |-> 1644912],
    [psz_name |-> <<"M","i","n","t","C","r","e","a","m">>, i_value |-> 16121850],
    [psz_name |-> <<"M","i","s","t","y","R","o","s","e">>, i_value |-> 16770273],
    [psz_name |-> <<"M","o","c","c","a","s","i","n">>, i_value |-> 16770229],
    [psz_name |-> <<"N","a","v","a","j","o","W","h","i","t","e">>, i_value |-> 16768685],
    [psz_name |-> <<"N","a","v","y">>, i_value |-> 128],
    [psz_name |-> <<"O","l","d","L","a","c","e">>, i_value |-> 16643558],
    [psz_name |-> <<"O","l","i","v","e">>, i_value |-> 8421376],
    [psz_name |-> <<"O","l","i","v","e","D","r","a","b">>, i_value |-> 7048739],
    [psz_name |-> <<"O","r","a","n","g","e">>, i_value |-> 16753920],
    [psz_name |-> <<"O","r","a","n","g","e","R","e","d">>, i_value |-> 16729344],
    [psz_name |-> <<"O","r","c","h","i","d">>, i_value |-> 14315734],
    [psz_name |-> <<"P","a","l","e","G","o","l","d","e","n","R","o","d">>, i_value |-> 15657130],
    [psz_name |-> <<"P","a","l","e","G","r","e","e","n">>, i_value |-> 10025880],
    [psz_name |-> <<"P","a","l","e","T","u","r","q","u","o","i","s","e">>, i_value |-> 11529966],
    [psz_name |-> <<"P","a","l","e","V","i","o","l","e","t","R","e","d">>, i_value |-> 14184595],
    [psz_name |-> <<"P","a","p","a","y","a","W","h","i","p">>, i_value |-> 16773077],
    [psz_name |-> <<"P","e","a","c","h","P","u","f","f">>, i_value |-> 16767673],
    [psz_name |-> <<"P","e","r","u">>, i_value |-> 13468991],
    [psz_name |-> <<"P","i","n","k">>, i_value |-> 16761035],
    [psz_name |-> <<"P","l","u","m">>, i_value |-> 14524637],
    [psz_name |-> <<"P","o","w","d","e","r","B","l","u","e">>, i_value |-> 11591910],
    [psz_name |-> <<"P","u","r","p","l","e">>, i_value |-> 8388736],
    [psz_name |-> <<"R","e","d">>, i_value |-> 16711680],
    [psz_name |-> <<"R","o","s","y","B","r","o","w","n">>, i_value |-> 12357519],
    [psz_name |-> <<"R","o","y","a","l","B","l","u","e">>, i_value |-> 4286945],
    [psz_name |-> <<"S","a","d","d","l","e","B","r","o","w","n">>, i_value |-> 9127187],
    [psz_name |-> <<"S","a","l","m","o","n">>, i_value |-> 16416882],
    [psz_name |-> <<"S","a","n","d","y","B","r","o","w","n">>, i_value |-> 16032864],
    [psz_name |-> <<"S","e","a","G","r","e","e","n">>, i_value |-> 3050327],
    [psz_name |-> <<"S","e","a","S","h","e","l","l">>, i_value |-> 16774638],
    [psz_name |-> <<"S","i","e","n","n","a">>, i_value |-> 10506797],
    [psz_name |-> <<"S","i","l","v","e","r">>, i_value |-> 12632256],
    [psz_name |-> <<"S","k","y","B","l","u","e">>, i_value |-> 8900331],
    [psz_name |-> <<"S","l","a","t","e","B","l","u","e">>, i_value |-> 6970061],
    [psz_name |-> <<"S","l","a","t","e","G","r","a","y">>, i_value |-> 7372944],
    [psz_name |-> <<"S","l","a","t","e","G","r","e","y">>, i_value |-> 7372944],
    [psz_name |-> <<"S","n","o","w">>, i_value |-> 16775930],
    [psz_name |-> <<"S","p","r","i","n","g","G","r","e","e","n">>, i_value |-> 65407],
    [psz_name |-> <<"S","t","e","e","l","B","l","u","e">>, i_value |-> 4620980],
    [psz_name |-> <<"T","a","n">>, i_value |-> 13808780],
    [psz_name |-> <<"T","e","a","l">>, i_value |-> 32896],
    [psz_name |-> <<"T","h","i","s","t","l","e">>, i_value |-> 14204888],
    [psz_name |-> <<"T","o","m","a","t","o">>, i_value |-> 16737095],
    [psz_name |-> <<"T","u","r","q","u","o","i","s","e">>, i_value |-> 4251856],
    [psz_name |-> <<"V","i","o","l","e","t">>, i_value |-> 15631086],
    [psz_name |-> <<"W","h","e","a","t">>, i_value |-> 16113331],
    [psz_name |-> <<"W","h","i","t","e">>, i_value |-> 16777215],
    [psz_name |-> <<"W","h","i","t","e","S","m","o","k","e">>, i_value |-> 16119285],
    [psz_name |-> <<"Y","e","l","l","o","w">>, i_value |-> 16776960],
    [psz_name |-> <<"Y","e","l","l","o","w","G","r","e","e","n">>, i_value |-> 10145074]
  >>

\* the only element of a singleton set: One({ e(x) : x \in {v} }) is e(v),
\* with v computed once
One(S) == CHOOSE x \in S : TRUE

\* GetColor: the value of the first entry whose name equals psz_color
\* ignoring case, 0 when there is none
\* GetColor comparing only the characters of psz_color (strncasecmp)
GetColorIn_PrefixMatch(table, psz_color) ==
  LET n == Len(psz_color)
      match(i) == /\ n <= Len(table[i].psz_name)
                  /\ \A k \in 1..n :
                       tolower(psz_color[k]) = tolower(table[i].psz_name[k])
  IN  IF \E i \in DOMAIN table : match(i)
      THEN table[CHOOSE i \in DOMAIN table :
                   match(i) /\ \A j \in 1..(i - 1) : ~match(j)].i_value
      ELSE 0
GetColorIn(table, psz_color) ==
  IF \E i \in DOMAIN table : strcasecmp_eq(psz_color, table[i].psz_name)
  THEN table[CHOOSE i \in DOMAIN table :
               /\ strcasecmp_eq(psz_color, table[i].psz_name)
               /\ \A j \in 1..(i - 1) :
                    ~strcasecmp_eq(psz_color, table[j].psz_name)].i_value
  ELSE 0
GetColor(psz_color) == One({ GetColorIn(t, psz_color) : t \in {p_html_colors} })

\* ----------------------------------------------------------------- inputs
Tokens ==
  { <<"x">>,
    <<"\n">>,
    <<"<">>,
    <<"{">>,
    <<"}">>,
    <<">">>,
    <<"=">>,
    <<"<","b",">">>,
    <<"<","I",">">>,
    <<"<","/","b",">">>,
    <<"<","b","r","/",">">>,
    <<"{","\\","a","n","7","}">>,
    <<"{","\\","a","n","3","}">>,
    <<"{","y",":","i","}">>,
    <<"{","c",":","x","}">>,
    <<"<","f","o","n","t"," ">>,
    <<"<","f","o","n","t"," ","c","o","l","o","r","=","\"","R","e","d","\"",">">>,
    <<"<","/","f","o","n","t",">">>,
    <<"<","s",">">>,
    <<" ">> }

Examples ==
  { <<>>,
    <<"p","l","a","i","n"," ","t","e","x","t">>,
    <<"<","b",">","b","o","l","d","<","/","b",">"," ","n","o","r","m","a","l">>,
    <<"l","i","n","e","1","<","b","r","/",">","l","i","n","e","2">>,
    <<"{","\\","a","n","7","}","T","o","p"," ","L","e","f","t">>,
    <<"<","f","o","n","t"," ","c","o","l","o","r","=","\"","R","e","d","\"",">","R","e","d","<","/","f","o","n","t",">","P","l","a","i","n">>,
    <<"<","m","a","r","q","u","e","e",">","x","<","/","m","a","r","q","u","e","e",">">>,
    <<"a","<","B","R","/",">","b","<","b","R","/",">">>,
    <<"<","u",">","x","<","S",">","y">>,
    <<"<","b",">","<","i",">","x">>,
    <<"<","f","o","n","t"," ","c","o","l","o","r","=","R","e","d",">","x">>,
    <<"<","f","o","n","t"," ","c","o","l","o","r","=","'","b","l","u","e","'"," ","s","i","z","e","=","\"","1","2","\"",">","x">>,
    <<"<","b",">","x","<","/","b",">","<","/","b",">">>,
    <<"{","\\","a","n","0","}","{","\\","a","n","9","}","{","\\","a","n","1","}","x">>,
    <<"{","\\","b","1","}","{","\\","a","n","5","}","x">>,
    <<"{","Y",":","b","}","x","{","y",":","i","b","u","}","y">>,
    <<"{","P",":","x","}","a","{","y",":","u","}">>,
    <<"{","\\","b","1","}","{","\\","a","n","9","}","{","\\","a","n","1","}","{","c",":","x","}","a">>,
    <<"<","/","f","o","n","t",">","x">>,
    <<"<","F","O","N","T"," ","f","a","c","e","=","\"","a","\""," ","f","a","m","i","l","y","=","b"," ","a","l","p","h","a","=","1",">","x">>,
    <<"a","{">>,
    <<"{","x">>,
    <<"<","f","o","n","t"," ","s","i","z","e","=","3"," ",">","a","=","b"," ","c">>,
    <<"<","b",">","x","<","/","b",">">>,
    <<"<","f","o","n","t"," ","o","u","t","l","i","n","e","-","c","o","l","o","r","=","\"","R","e","d","\"",">","x">>,
    <<"<","f","o","n","t"," ","s","h","a","d","o","w","-","c","o","l","o","r","=","\"","R","e","d","\"",">","x">>,
    <<"<","f","o","n","t"," ","b","a","c","k","-","c","o","l","o","r","=","\"","R","e","d","\"",">","x">>,
    <<"<","f","o","n","t"," ","o","u","t","l","i","n","e","-","l","e","v","e","l","=","\"","2","\"",">","x">>,
    <<"<","f","o","n","t"," ","s","h","a","d","o","w","-","l","e","v","e","l","=","\"","2","\"",">","x">> }

RECURSIVE TokenStrings(_)
TokenStrings(n) ==
  IF n = 0 THEN { <<>> }
  ELSE LET shorter == TokenStrings(n - 1) IN
       shorter \cup { s \o t : s \in shorter, t \in Tokens }

\* {\anN}x for every digit N
AnExamples ==
  { <<"{", "\\", "a", "n", d, "}", "x">> :
      d \in {"0", "1", "2", "3", "4", "5", "6", "7", "8", "9"} }

Inputs == Examples \cup AnExamples \cup TokenStrings(MaxTokens)

\* the values the caller passes in *pi_align: SUBPICTURE_ALIGN_BOTTOM or'ed
\* with the configured justification (centre or left)
CallerAligns == { {"BOTTOM"}, {"BOTTOM", "LEFT"} }

\* ------------------------------------------------------------------ state
VARIABLES
  input,            \* the string psz_subtitle points into
  pos,              \* the cursor psz_subtitle, 1-based
  pc,               \* "start", "scan", "done" (returned) or "crash"
  seg,              \* heap of text_segment_t: [psz_text, style, p_next]
  sty,              \* heap of text_style_t
  p_first_segment,  \* index into seg, NULL if none
  p_segment,        \* index into seg, NULL if none
  p_stack,          \* the style stack: indices into sty, top first
  pi_align,         \* the caller's alignment, a set of alignment bits
  b_has_align,
  align0,           \* the value of *pi_align at the call
  retval,           \* the returned chain head, NULL for failure
  chain_deleted,    \* text_segment_ChainDelete( p_first_segment ) was run
  nFail,            \* steps in which an allocation has failed so far
  oob,              \* a character beyond the terminator has been read
  psz_attribute_name,   \* the locals of the <font branch: the last name
  psz_attribute_value   \* and value ConsumeAttribute has returned

vars ==
  << input, pos, pc, seg, sty, p_first_segment, p_segment, p_stack,
     pi_align, b_has_align, align0, retval, chain_deleted, nFail, oob,
     psz_attribute_name, psz_attribute_value >>

\* text_style_New(): a style with no flag and every field unset
text_style_New ==
  [ i_style_flags |-> {}, psz_fontname |-> NullStr,
    psz_monofontname |-> NullStr,
    i_font_size |-> -1, i_font_color |-> -1, i_font_alpha |-> -1,
    i_outline_color |-> -1, i_outline_width |-> -1,
    i_shadow_color |-> -1, i_shadow_width |-> -1,
    i_background_color |-> -1 ]

\* text_style_Duplicate(): a field-by-field copy
text_style_Duplicate(p_style) == p_style

\* ------------------------------------------------- the heap during a step
\* A step works on a record m: the heaps, p_segment, the stack, n (the
\* allocations requested so far in this step), ret (the value returned by
\* the last call), ok (the last AppendCharacter succeeded) and crash (a null
\* pointer has been dereferenced).  The f-th allocation of the step fails.
Machine ==
  [ seg |-> seg, sty |-> sty, p_segment |-> p_segment, p_stack |-> p_stack,
    pos |-> pos, pi_align |-> pi_align, b_has_align |-> b_has_align,
    oob |-> oob, n |-> 0, ret |-> NULL, ok |-> TRUE, fail |-> FALSE,
    crash |-> FALSE ]

AllocFails(m, f) == m.n + 1 = f

Crash(m) == [m EXCEPT !.crash = TRUE]

\* text_segment_New( psz_text ): a segment with that text (empty text when
\* psz_text is NULL), no style and no successor
text_segment_New(m, psz_text, f) ==
  IF AllocFails(m, f) THEN [m EXCEPT !.n = @ + 1, !.ret = NULL]
  ELSE [m EXCEPT !.n = @ + 1,
                 !.seg = Append(@, [psz_text |-> IF psz_text = NullStr
                                                 THEN <<>> ELSE psz_text,
                                    style |-> NULL, p_next |-> NULL]),
                 !.ret = Len(m.seg) + 1]

\* AppendCharacter with the format "%c%s" for "%s%c"
AppendCharacter_Prepends(m, c, f) ==
  IF m.crash THEN m
  ELSE IF m.p_segment = NULL THEN Crash(m)
  ELSE IF AllocFails(m, f) THEN [m EXCEPT !.n = @ + 1, !.ok = FALSE]
  ELSE [m EXCEPT !.n = @ + 1, !.ok = TRUE,
                 !.seg[m.p_segment].psz_text = <<c>> \o @]

\* AppendCharacter( p_segment, c )
AppendCharacter(m, c, f) ==
  IF m.crash THEN m
  ELSE IF m.p_segment = NULL THEN Crash(m)
  ELSE IF AllocFails(m, f) THEN [m EXCEPT !.n = @ + 1, !.ok = FALSE]
  ELSE [m EXCEPT !.n = @ + 1, !.ok = TRUE,
                 !.seg[m.p_segment].psz_text = Append(@, c)]

\* DuplicateAndPushStyle pushing the style on top of the stack itself, not a
\* duplicate of it
DuplicateAndPushStyle_SharesTop(m, f) ==
  LET a == [m EXCEPT !.n = @ + 1]
  IN  IF AllocFails(m, f) THEN [a EXCEPT !.ret = NULL]
      ELSE IF AllocFails(a, f) THEN [a EXCEPT !.n = @ + 1, !.ret = NULL]
      ELSE IF m.p_stack # <<>>
        THEN [a EXCEPT !.n = @ + 1,
                       !.p_stack = <<Head(m.p_stack)>> \o @,
                       !.ret = Head(m.p_stack)]
      ELSE [a EXCEPT !.n = @ + 1,
                     !.sty = Append(@, text_style_New),
                     !.p_stack = <<Len(m.sty) + 1>> \o @,
                     !.ret = Len(m.sty) + 1]

\* DuplicateAndPushStyle starting from a default style whatever the stack
DuplicateAndPushStyle_AlwaysNew(m, f) ==
  LET p_dup == text_style_New
      a == [m EXCEPT !.n = @ + 1]
  IN  IF AllocFails(m, f) THEN [a EXCEPT !.ret = NULL]
      ELSE IF AllocFails(a, f) THEN [a EXCEPT !.n = @ + 1, !.ret = NULL]
      ELSE [a EXCEPT !.n = @ + 1,
                     !.sty = Append(@, p_dup),
                     !.p_stack = <<Len(m.sty) + 1>> \o @,
                     !.ret = Len(m.sty) + 1]

\* DuplicateAndPushStyle( &p_stack )
DuplicateAndPushStyle(m, f) ==
  LET p_dup == IF m.p_stack # <<>>
               THEN text_style_Duplicate(m.sty[Head(m.p_stack)])
               ELSE text_style_New
      a == [m EXCEPT !.n = @ + 1]
  IN  IF AllocFails(m, f) THEN [a EXCEPT !.ret = NULL]
      ELSE IF AllocFails(a, f) THEN [a EXCEPT !.n = @ + 1, !.ret = NULL]
      ELSE [a EXCEPT !.n = @ + 1,
                     !.sty = Append(@, p_dup),
                     !.p_stack = <<Len(m.sty) + 1>> \o @,
                     !.ret = Len(m.sty) + 1]

\* PopStyle( &p_stack )
PopStyle(m) ==
  IF m.p_stack = <<>> THEN Crash(m)
  ELSE [m EXCEPT !.p_stack = Tail(@)]

\* NewTextSegmentPushStyle with p_segment->p_next = p_segment
NewTextSegmentPushStyle_LinksSelf(m, f) ==
  IF m.crash THEN m
  ELSE One({
    IF a.ret = NULL THEN a
    ELSE One({
      IF m.p_segment = NULL THEN Crash([b EXCEPT !.seg[a.ret].style = b.ret])
      ELSE [b EXCEPT !.seg[a.ret].style = b.ret,
                     !.seg[m.p_segment].p_next = m.p_segment,
                     !.ret = a.ret]
      : b \in {DuplicateAndPushStyle(a, f)} })
    : a \in {text_segment_New(m, NullStr, f)} })

\* NewTextSegmentPushStyle( p_segment, &p_stack ); ret is the value returned
NewTextSegmentPushStyle(m, f) ==
  IF m.crash THEN m
  ELSE One({
    IF a.ret = NULL THEN a
    ELSE One({
      IF m.p_segment = NULL THEN Crash([b EXCEPT !.seg[a.ret].style = b.ret])
      ELSE [b EXCEPT !.seg[a.ret].style = b.ret,
                     !.seg[m.p_segment].p_next = a.ret,
                     !.ret = a.ret]
      : b \in {DuplicateAndPushStyle(a, f)} })
    : a \in {text_segment_New(m, NullStr, f)} })

\* the style the segment after a closing tag gets:
\* *pp_stack ? text_style_Duplicate( (*pp_stack)->p_style ) : text_style_New()
PopStyleDup(m, p_new, f) ==
  IF AllocFails(m, f) THEN [m EXCEPT !.n = @ + 1]
  ELSE [m EXCEPT !.n = @ + 1,
                 !.sty = Append(@, IF m.p_stack # <<>>
                                   THEN text_style_Duplicate(m.sty[Head(m.p_stack)])
                                   ELSE text_style_New),
                 !.seg[p_new].style = Len(m.sty) + 1]

\* NewTextSegmentPopStyle( p_segment, &p_stack ); ret is the value returned
NewTextSegmentPopStyle(m, f) ==
  IF m.crash THEN m
  ELSE One({
    IF a.ret = NULL THEN a
    ELSE One({
      IF b.crash THEN b
      ELSE One({
        IF m.p_segment = NULL THEN Crash(d)
        ELSE [d EXCEPT !.seg[m.p_segment].p_next = a.ret, !.ret = a.ret]
        : d \in {PopStyleDup(b, a.ret, f)} })
      : b \in {PopStyle(a)} })
    : a \in {text_segment_New(m, NullStr, f)} })

\* p_segment = NewTextSegmentPushStyle( p_segment, &p_stack );
\* p_segment->style->i_style_flags |= flag;
PushStyleFlag(m, flag, f) ==
  One({
    IF a.crash THEN a
    ELSE IF a.ret = NULL THEN Crash([a EXCEPT !.p_segment = NULL])
    ELSE IF a.seg[a.ret].style = NULL THEN Crash([a EXCEPT !.p_segment = a.ret])
    ELSE [a EXCEPT !.p_segment = a.ret,
                   !.sty[a.seg[a.ret].style].i_style_flags = @ \cup {flag}]
    : a \in {NewTextSegmentPushStyle(m, f)} })

\* ConsumeAttribute( &psz_subtitle, &psz_attribute_value ) called with the
\* cursor at p after n allocations: found is FALSE for a NULL return
ConsumeAttribute(s, p, n, f) ==
  LET p1 == SkipBlank(s, p)
      p2 == SkipIsalpha(s, p1)
      attribute_name == SubSeq(s, p1, p2 - 1)
      p3 == SkipUntil(s, p2, "=")
      p4 == SkipIsspace(s, p3)
      delimiter == IF At(s, p4) \in {"'", "\""} THEN At(s, p4) ELSE NUL
      p5 == SkipIsspace(s, p4)
      p6 == IF delimiter # NUL THEN SkipUntil(s, p5, delimiter)
            ELSE SkipUntilIsalpha(s, p5)
      none == [found |-> FALSE, name |-> <<>>, value |-> <<>>, pos |-> p]
  IN  IF At(s, p2) = NUL THEN none @@ [n |-> n]
      ELSE IF n + 1 = f THEN none @@ [n |-> n + 1]
      ELSE IF At(s, p6) = NUL THEN none @@ [n |-> n + 1]
      ELSE IF n + 2 = f THEN none @@ [n |-> n + 2]
      ELSE [found |-> TRUE, name |-> attribute_name,
            value |-> SubSeq(s, p5, p6 - 1), pos |-> p6, n |-> n + 2]

\* the attribute names the <font> branch knows, by the style field they set
FontAttributeNames ==
  { <<"f","a","c","e">>, <<"f","a","m","i","l","y">>, <<"s","i","z","e">>,
    <<"c","o","l","o","r">>,
    <<"o","u","t","l","i","n","e","-","c","o","l","o","r">>,
    <<"s","h","a","d","o","w","-","c","o","l","o","r">>,
    <<"o","u","t","l","i","n","e","-","l","e","v","e","l">>,
    <<"s","h","a","d","o","w","-","l","e","v","e","l">>,
    <<"b","a","c","k","-","c","o","l","o","r">>,
    <<"a","l","p","h","a">> }

\* the if / else if chain on psz_attribute_name applied to the style st;
\* color is GetColor( psz_attribute_value ), number atoi( psz_attribute_value )
SetFontAttributeTo(st, name, value, color, number) ==
  IF strcasecmp_eq(name, <<"f","a","c","e">>)
    THEN [st EXCEPT !.psz_fontname = value]
  ELSE IF strcasecmp_eq(name, <<"f","a","m","i","l","y">>)
    THEN [st EXCEPT !.psz_monofontname = value]
  ELSE IF strcasecmp_eq(name, <<"s","i","z","e">>)
    THEN [st EXCEPT !.i_font_size = number]
  ELSE IF strcasecmp_eq(name, <<"c","o","l","o","r">>)
    THEN [st EXCEPT !.i_font_color = color]
  ELSE IF strcasecmp_eq(name, <<"o","u","t","l","i","n","e","-","c","o","l","o","r">>)
    THEN [st EXCEPT !.i_outline_color = color]
  ELSE IF strcasecmp_eq(name, <<"s","h","a","d","o","w","-","c","o","l","o","r">>)
    THEN [st EXCEPT !.i_shadow_color = color]
  ELSE IF strcasecmp_eq(name, <<"o","u","t","l","i","n","e","-","l","e","v","e","l">>)
    THEN [st EXCEPT !.i_outline_width = number]
  ELSE IF strcasecmp_eq(name, <<"s","h","a","d","o","w","-","l","e","v","e","l">>)
    THEN [st EXCEPT !.i_shadow_width = number]
  ELSE IF strcasecmp_eq(name, <<"b","a","c","k","-","c","o","l","o","r">>)
    THEN [st EXCEPT !.i_background_color = color]
  ELSE IF strcasecmp_eq(name, <<"a","l","p","h","a">>)
    THEN [st EXCEPT !.i_font_alpha = number]
  ELSE st
SetFontAttribute(st, name, value) ==
  One({ SetFontAttributeTo(st, name, value, kv[1], kv[2])
        : kv \in {<<GetColor(value), atoi(value)>>} })

\* the while loop over ConsumeAttribute of the <font> branch
RECURSIVE FontAttributes(_, _)
FontAttributes(m, f) ==
  One({
    IF ~r.found THEN [m EXCEPT !.n = r.n]
    ELSE IF ~(\E k \in FontAttributeNames : strcasecmp_eq(r.name, k))
      THEN FontAttributes([m EXCEPT !.n = r.n, !.pos = r.pos], f)
    ELSE IF m.p_segment = NULL THEN Crash(m)
    ELSE IF m.seg[m.p_segment].style = NULL THEN Crash(m)
    ELSE FontAttributes(
           [m EXCEPT !.n = r.n, !.pos = r.pos,
                     !.sty[m.seg[m.p_segment].style]
                        = SetFontAttribute(@, r.name, r.value)], f)
    : r \in {ConsumeAttribute(input, m.pos, m.n, f)} })

\* --------------------------------------------- the branches of the scanner
\* each is one iteration of the while loop of ParseSubtitles, taken with the
\* f-th allocation of the iteration failing

\* if( *psz_subtitle == '\n' )
IsNewline == At(input, pos) = "\n"
NewlineStep(f) ==
  One({ IF a.crash THEN a
        ELSE IF ~a.ok THEN [a EXCEPT !.fail = TRUE]
        ELSE [a EXCEPT !.pos = @ + 1]
        : a \in {AppendCharacter(Machine, "\n", f)} })

\* <br/>
IsBr == /\ At(input, pos) = "<"
        /\ strncasecmp_eq(input, pos, <<"<","b","r","/",">">>, 5)
\* the <br/> branch advancing by strlen( "<br>" )
BrStep_Advances4(f) ==
  One({ IF a.crash THEN a
        ELSE IF ~a.ok THEN [a EXCEPT !.fail = TRUE]
        ELSE [a EXCEPT !.pos = @ + Len(<<"<","b","r",">">>)]
        : a \in {AppendCharacter(Machine, "\n", f)} })
BrStep(f) ==
  One({ IF a.crash THEN a
        ELSE IF ~a.ok THEN [a EXCEPT !.fail = TRUE]
        ELSE [a EXCEPT !.pos = @ + Len(<<"<","b","r","/",">">>)]
        : a \in {AppendCharacter(Machine, "\n", f)} })

\* <b>, <i>, <u>, <s>
OpenTags ==
  << [tag |-> <<"<","b",">">>, flag |-> "STYLE_BOLD"],
     [tag |-> <<"<","i",">">>, flag |-> "STYLE_ITALIC"],
     [tag |-> <<"<","u",">">>, flag |-> "STYLE_UNDERLINE"],
     [tag |-> <<"<","s",">">>, flag |-> "STYLE_STRIKEOUT"] >>
IsOpenTag(k) ==
  /\ At(input, pos) = "<"
  /\ ~IsBr
  /\ strncasecmp_eq(input, pos, OpenTags[k].tag, 3)
  /\ \A j \in 1..(k - 1) : ~strncasecmp_eq(input, pos, OpenTags[j].tag, 3)
OpenTagStep(k, f) ==
  One({ IF a.crash THEN a
        ELSE [a EXCEPT !.pos = @ + Len(OpenTags[k].tag)]
        : a \in {PushStyleFlag(Machine, OpenTags[k].flag, f)} })

\* <font ...
IsFont ==
  /\ At(input, pos) = "<"
  /\ ~IsBr
  /\ \A k \in DOMAIN OpenTags : ~IsOpenTag(k)
  /\ strncasecmp_eq(input, pos, <<"<","f","o","n","t"," ">>, 6)
\* the <font branch stepping over the > it has searched for
FontStep_StepsOverGt(f) ==
  One({
    IF a.crash THEN a
    ELSE One({
      IF c.crash THEN c
      ELSE [c EXCEPT !.pos = SkipUntil(input, c.pos, ">") + 1]
      : c \in {FontAttributes(
                 [a EXCEPT !.p_segment = a.ret,
                           !.pos = @ + Len(<<"<","f","o","n","t"," ">>)], f)} })
    : a \in {NewTextSegmentPushStyle(Machine, f)} })
FontStep(f) ==
  One({
    IF a.crash THEN a
    ELSE One({
      IF c.crash THEN c
      ELSE [c EXCEPT !.pos = SkipUntil(input, c.pos, ">")]
      : c \in {FontAttributes(
                 [a EXCEPT !.p_segment = a.ret,
                           !.pos = @ + Len(<<"<","f","o","n","t"," ">>)], f)} })
    : a \in {NewTextSegmentPushStyle(Machine, f)} })

\* </...
ClosingNames ==
  { <<"b">>, <<"i">>, <<"u">>, <<"s">>, <<"f","o","n","t">> }
IsClosing ==
  /\ At(input, pos) = "<"
  /\ ~IsBr
  /\ \A k \in DOMAIN OpenTags : ~IsOpenTag(k)
  /\ ~IsFont
  /\ strncmp_eq(input, pos, <<"<","/">>, 2)
\* the closing-tag branch comparing the names with the text after "</"
ClosingStep_ComparesName(f) ==
  LET p_old_pos == pos
      tag_length == SkipUntil(input, pos, ">") - p_old_pos
  IN  IF \E name \in ClosingNames :
           strncasecmp_eq(input, p_old_pos + 2, name, tag_length - 2)
      THEN One({ IF a.crash THEN a
                 ELSE [a EXCEPT !.p_segment = a.ret,
                                !.pos = p_old_pos + tag_length]
                 : a \in {NewTextSegmentPopStyle(Machine, f)} })
      ELSE [AppendCharacter(Machine, "<", f) EXCEPT !.pos = p_old_pos + 1]
ClosingStep(f) ==
  LET p_old_pos == pos
      tag_length == SkipUntil(input, pos, ">") - p_old_pos
  IN  IF \E name \in ClosingNames :
           strncasecmp_eq(input, p_old_pos, name, tag_length)
      THEN One({ IF a.crash THEN a
                 ELSE [a EXCEPT !.p_segment = a.ret,
                                !.pos = p_old_pos + tag_length]
                 : a \in {NewTextSegmentPopStyle(Machine, f)} })
      ELSE [AppendCharacter(Machine, "<", f) EXCEPT !.pos = p_old_pos + 1]

\* any other <
IsUnknownTag ==
  /\ At(input, pos) = "<"
  /\ ~IsBr
  /\ \A k \in DOMAIN OpenTags : ~IsOpenTag(k)
  /\ ~IsFont
  /\ ~IsClosing
\* the unknown tag dropped whole, up to and including its >
UnknownTagStep_SkipsTag(f) ==
  [Machine EXCEPT !.pos = SkipUntil(input, pos, ">") + 1]
UnknownTagStep(f) ==
  [AppendCharacter(Machine, "<", f) EXCEPT !.pos = pos + 1]

\* {\...}
IsSsaBlock ==
  /\ At(input, pos) = "{"
  /\ At(input, pos + 1) = "\\"
  /\ strchr(input, pos, "}") # NULL
\* pi_vertical with top and bottom exchanged
pi_vertical_TopFirst == << {"TOP"}, {}, {"BOTTOM"} >>
pi_vertical == << {"BOTTOM"}, {}, {"TOP"} >>
pi_horizontal == << {"LEFT"}, {}, {"RIGHT"} >>
IsForcedAlignment ==
  /\ strncmp_eq(input, pos, <<"{","\\","a","n">>, 4)
  /\ isdigit(At(input, pos + 4)) /\ At(input, pos + 4) # "0"
  /\ At(input, pos + 5) = "}"
\* the {\...} branch without the test of b_has_align
SsaBlockStep_NoHasAlignTest(f) ==
  LET i_id == DigitValue(At(input, pos + 4)) - 1
      a == IF IsForcedAlignment
           THEN [Machine EXCEPT
                   !.b_has_align = TRUE,
                   !.pi_align = pi_vertical[(i_id \div 3) + 1]
                                  \cup pi_horizontal[(i_id % 3) + 1]]
           ELSE Machine
  IN  [a EXCEPT !.pos = strchr(input, pos, "}") + 1]
SsaBlockStep(f) ==
  LET i_id == DigitValue(At(input, pos + 4)) - 1
      a == IF ~b_has_align /\ IsForcedAlignment
           THEN [Machine EXCEPT
                   !.b_has_align = TRUE,
                   !.pi_align = pi_vertical[(i_id \div 3) + 1]
                                  \cup pi_horizontal[(i_id % 3) + 1]]
           ELSE Machine
  IN  [a EXCEPT !.pos = strchr(input, pos, "}") + 1]

\* {Y:...} and {y:...}
IsYBlock ==
  /\ At(input, pos) = "{"
  /\ ~IsSsaBlock
  /\ At(input, pos + 1) \in {"Y", "y"}
  /\ At(input, pos + 2) = ":"
  /\ strchr(input, pos, "}") # NULL
\* one test of the {Y:...} branch without its psz_subtitle++
YIf_NoAdvance(m, c, flag, f) ==
  IF m.crash THEN m
  ELSE IF At(input, m.pos + 3) = c
  THEN PushStyleFlag(m, flag, f)
  ELSE m
YIf(m, c, flag, f) ==
  IF m.crash THEN m
  ELSE IF At(input, m.pos + 3) = c
  THEN One({ IF a.crash THEN a ELSE [a EXCEPT !.pos = @ + 1]
             : a \in {PushStyleFlag(m, flag, f)} })
  ELSE m
YBlockStep(f) ==
  One({ IF c.crash THEN c
        ELSE [c EXCEPT !.pos = strchr(input, c.pos, "}") + 1]
        : c \in { YIf(b, "u", "STYLE_UNDERLINE", f)
                  : b \in { YIf(a, "b", "STYLE_BOLD", f)
                            : a \in {YIf(Machine, "i", "STYLE_ITALIC", f)} } } })

\* other {x:y}
\* the test reads psz_subtitle[2] whatever psz_subtitle[1] is
ReadsPastEnd == At(input, pos) = "{" /\ At(input, pos + 1) = NUL
IsGenericBlock ==
  /\ At(input, pos) = "{"
  /\ ~IsSsaBlock
  /\ ~IsYBlock
  /\ At(input, pos + 2) = ":"
  /\ strchr(input, pos, "}") # NULL
\* the {x:y} branch without the + 1 after strchr
GenericBlockStep_KeepsBrace(f) ==
  [Machine EXCEPT !.pos = strchr(input, pos, "}")]
GenericBlockStep(f) ==
  [Machine EXCEPT !.pos = strchr(input, pos, "}") + 1]

\* every other character
IsLiteral ==
  /\ At(input, pos) \notin {NUL, "\n", "<"}
  /\ ~IsSsaBlock
  /\ ~IsYBlock
  /\ ~IsGenericBlock
LiteralStep(f) ==
  [AppendCharacter(Machine, At(input, pos), f) EXCEPT
     !.pos = pos + 1, !.oob = @ \/ ReadsPastEnd]

\* ---------------------------------------------------------------- actions
Init ==
  /\ input \in Inputs
  /\ pos = 1
  /\ pc = "start"
  /\ seg = <<>>
  /\ sty = <<>>
  /\ p_first_segment = NULL
  /\ p_segment = NULL
  /\ p_stack = <<>>
  /\ align0 \in CallerAligns
  /\ pi_align = align0
  /\ b_has_align = FALSE
  /\ retval = NULL
  /\ chain_deleted = FALSE
  /\ nFail = 0
  /\ oob = FALSE
  /\ psz_attribute_name = NullStr
  /\ psz_attribute_value = NullStr

\* the ordinals of the allocation that may fail in a step that requests n
\* allocations when none fails
FailChoice(n) == IF nFail < MaxFailures THEN 0..n ELSE {0}

\* the state after an iteration that left the machine m
Commit(m, f) ==
  /\ seg' = m.seg
  /\ sty' = m.sty
  /\ p_segment' = m.p_segment
  /\ p_stack' = m.p_stack
  /\ pos' = m.pos
  /\ pi_align' = m.pi_align
  /\ b_has_align' = m.b_has_align
  /\ oob' = m.oob
  /\ nFail' = IF f # 0 THEN nFail + 1 ELSE nFail
  /\ pc' = IF m.crash THEN "crash" ELSE IF m.fail THEN "done" ELSE "scan"
  /\ chain_deleted' = (~m.crash /\ m.fail)
  /\ UNCHANGED << input, p_first_segment, align0, retval,
                  psz_attribute_name, psz_attribute_value >>

\* p_first_segment = p_segment = text_segment_New( "" ); b_has_align = false
Start ==
  /\ pc = "start"
  /\ \E f \in FailChoice(1) :
       LET a == text_segment_New(Machine, <<>>, f) IN
       /\ seg' = a.seg
       /\ p_first_segment' = a.ret
       /\ p_segment' = a.ret
       /\ nFail' = IF f # 0 THEN nFail + 1 ELSE nFail
  /\ b_has_align' = FALSE
  /\ pc' = "scan"
  /\ UNCHANGED << input, pos, sty, p_stack, pi_align, align0, retval,
                  chain_deleted, oob, psz_attribute_name,
                  psz_attribute_value >>

Newline ==
  /\ pc = "scan"
  /\ IsNewline
  /\ \E f \in FailChoice(NewlineStep(0).n) : Commit(NewlineStep(f), f)

BrTag ==
  /\ pc = "scan"
  /\ IsBr
  /\ \E f \in FailChoice(BrStep(0).n) : Commit(BrStep(f), f)

OpenTag ==
  /\ pc = "scan"
  /\ \E k \in DOMAIN OpenTags :
       /\ IsOpenTag(k)
       /\ \E f \in FailChoice(OpenTagStep(k, 0).n) : Commit(OpenTagStep(k, f), f)

FontTag ==
  /\ pc = "scan"
  /\ IsFont
  /\ \E f \in FailChoice(FontStep(0).n) : Commit(FontStep(f), f)

ClosingTag ==
  /\ pc = "scan"
  /\ IsClosing
  /\ \E f \in FailChoice(ClosingStep(0).n) : Commit(ClosingStep(f), f)

UnknownTag ==
  /\ pc = "scan"
  /\ IsUnknownTag
  /\ \E f \in FailChoice(UnknownTagStep(0).n) : Commit(UnknownTagStep(f), f)

SsaBlock ==
  /\ pc = "scan"
  /\ IsSsaBlock
  /\ \E f \in FailChoice(SsaBlockStep(0).n) : Commit(SsaBlockStep(f), f)

YBlock ==
  /\ pc = "scan"
  /\ IsYBlock
  /\ \E f \in FailChoice(YBlockStep(0).n) : Commit(YBlockStep(f), f)

GenericBlock ==
  /\ pc = "scan"
  /\ IsGenericBlock
  /\ \E f \in FailChoice(GenericBlockStep(0).n) : Commit(GenericBlockStep(f), f)

\* When psz_subtitle[1] is the terminator the test of psz_subtitle[2] reads
\* the byte after the buffer ParseText has allocated with exactly
\* i_buffer + 1 bytes.  The read either yields some byte, and then the
\* branch is not taken whatever the byte is, because strchr stops at the
\* terminator, or it traps.
Literal ==
  /\ pc = "scan"
  /\ IsLiteral
  /\ \/ \E f \in FailChoice(LiteralStep(0).n) : Commit(LiteralStep(f), f)
     \/ /\ ReadsPastEnd
        /\ Commit(Crash([Machine EXCEPT !.oob = TRUE]), 0)

\* while( *psz_subtitle ) ends: return p_first_segment
Return ==
  /\ pc = "scan"
  /\ At(input, pos) = NUL
  /\ pc' = "done"
  /\ retval' = p_first_segment
  /\ UNCHANGED << input, pos, seg, sty, p_first_segment, p_segment, p_stack,
                  pi_align, b_has_align, align0, chain_deleted, nFail, oob,
                  psz_attribute_name, psz_attribute_value >>

Next ==
  \/ Start
  \/ Newline
  \/ BrTag
  \/ OpenTag
  \/ FontTag
  \/ ClosingTag
  \/ UnknownTag
  \/ SsaBlock
  \/ YBlock
  \/ GenericBlock
  \/ Literal
  \/ Return

Spec == Init /\ [][Next]_vars

\* ------------------------------------ the attribute loop of the <font branch
\* The while loop of lines 851-898 and GetColor run on their own: input is
\* the text that follows "<font ", psz_attribute_value the argument GetColor
\* is called with.
MaxAttrTokens == 3

AttrTokens ==
  { <<"c","o","l","o","r">>,
    <<"s","i","z","e">>,
    <<"f","a","c","e">>,
    <<"=">>,
    <<"\"">>,
    <<"'">>,
    <<"R","e","d">>,
    <<"3">>,
    <<" ">>,
    <<">">>,
    <<"x">>,
    <<"-">> }

AttrExamples ==
  { <<"c","o","l","o","r","=","\"","R","e","d","\"",">","R","e","d">>,
    <<"c","o","l","o","r","=","'","b","l","u","e","'"," ","s","i","z","e","=","\"","1","2","\"",">","x">>,
    <<"c","o","l","o","r","=","R","e","d",">","x">>,
    <<"s","i","z","e","=","3"," ",">","a","=","b"," ","c">>,
    <<">","a","=","b"," ","c">>,
    <<"c","o","l","o","r","=","\"","R","e","d">>,
    <<"c","o","l","o","r","=","'","R","e","d">>,
    <<"c","o","l","o","r">>,
    <<"c","o","l","o","r","=">>,
    <<"c","o","l","o","r","=","1","2">>,
    <<"f","a","c","e","=","\"","a","\""," ","f","a","m","i","l","y","=","b"," ","a","l","p","h","a","=","1",">","x">>,
    <<"\"","x","\"","=","1"," ","a">>,
    <<" ","c","o","l","o","r"," ","="," ","\"","R","e","d","\""," ","x">>,
    <<"o","u","t","l","i","n","e","-","c","o","l","o","r","=","\"","R","e","d","\"",">","x">>,
    <<"s","i","z","e","=","1","2"," ","x">>,
    <<"=","3"," ","x">>,
    <<" "," ",">">>,
    <<"C","O","L","O","R","=","\"","L","i","m","e","\""," ","x">> }

RECURSIVE AttrTokenStrings(_)
AttrTokenStrings(n) ==
  IF n = 0 THEN { <<>> }
  ELSE LET shorter == AttrTokenStrings(n - 1) IN
       shorter \cup { s \o a : s \in shorter, a \in AttrTokens }

AttributeTexts == AttrExamples \cup AttrTokenStrings(MaxAttrTokens)

\* color names as the table writes them, in lower and in upper case, cut
\* short by a character, with a character added, and some that are no names
toupper(c) ==
  IF c \in Range(LowerCase)
  THEN UpperCase[CHOOSE k \in DOMAIN LowerCase : LowerCase[k] = c]
  ELSE c
ColorArgs ==
  LET names == { p_html_colors[i].psz_name : i \in DOMAIN p_html_colors }
  IN  names
        \cup { [k \in DOMAIN n |-> tolower(n[k])] : n \in names }
        \cup { [k \in DOMAIN n |-> toupper(n[k])] : n \in names }
        \cup { SubSeq(n, 1, Len(n) - 1) : n \in names }
        \cup { Append(n, "x") : n \in names }
        \cup { <<>>, <<"=","\"">>, <<"=","R","e","d">>, <<"#","f","f","0","0","0","0">> }

FontInit ==
  /\ \/ /\ pc = "attributes"
        /\ input \in AttributeTexts
        /\ psz_attribute_value = NullStr
     \/ /\ pc = "color"
        /\ input = <<>>
        /\ psz_attribute_value \in ColorArgs
  /\ pos = 1
  /\ seg = << [psz_text |-> <<>>, style |-> NULL, p_next |-> 2],
              [psz_text |-> <<>>, style |-> 1, p_next |-> NULL] >>
  /\ sty = << text_style_New >>
  /\ p_first_segment = 1
  /\ p_segment = 2
  /\ p_stack = <<1>>
  /\ align0 \in { {"BOTTOM"} }
  /\ pi_align = align0
  /\ b_has_align = FALSE
  /\ retval = NULL
  /\ chain_deleted = FALSE
  /\ nFail = 0
  /\ oob = FALSE
  /\ psz_attribute_name = NullStr

\* one evaluation of the condition of the while loop, with the body when
\* ConsumeAttribute has returned a name
AttributeLoop ==
  /\ pc = "attributes"
  /\ \E f \in FailChoice(2) :
       LET r == ConsumeAttribute(input, pos, 0, f) IN
       /\ pos' = r.pos
       /\ psz_attribute_name' = IF r.found THEN r.name ELSE NullStr
       /\ psz_attribute_value' = IF r.found THEN r.value
                                 ELSE psz_attribute_value
       /\ sty' = IF r.found
                 THEN [sty EXCEPT ![seg[p_segment].style] =
                         SetFontAttribute(@, r.name, r.value)]
                 ELSE sty
       /\ pc' = IF r.found THEN "attributes" ELSE "attributes_end"
       /\ nFail' = IF f # 0 /\ f <= r.n THEN nFail + 1 ELSE nFail
  /\ UNCHANGED << input, seg, p_first_segment, p_segment, p_stack, pi_align,
                  b_has_align, align0, retval, chain_deleted, oob >>

\* p_segment->style->i_font_color = GetColor( psz_attribute_value );
ColorAttribute ==
  /\ pc = "color"
  /\ sty' = [sty EXCEPT ![seg[p_segment].style].i_font_color =
               GetColor(psz_attribute_value)]
  /\ pc' = "color_end"
  /\ UNCHANGED << input, pos, seg, p_first_segment, p_segment, p_stack,
                  pi_align, b_has_align, align0, retval, chain_deleted,
                  nFail, oob, psz_attribute_name, psz_attribute_value >>

FontNext ==
  \/ AttributeLoop
  \/ ColorAttribute

FontSpec == FontInit /\ [][FontNext]_vars

\* ------------------------------------------------------------- type check
TypeOK ==
  /\ pos \in 1..(Len(input) + 1)
  /\ pc \in {"start", "scan", "done", "crash",
            "attributes", "attributes_end", "color", "color_end"}
  /\ p_first_segment \in 0..Len(seg)
  /\ p_segment \in 0..Len(seg)
  /\ \A k \in DOMAIN p_stack : p_stack[k] \in 1..Len(sty)
  /\ nFail \in 0..MaxFailures
\* ------------------------------------------------------------ observations
\* the segments reached from p along p_next, at most fuel of them
RECURSIVE ChainFrom(_, _)
ChainFrom(p, fuel) ==
  IF p = NULL \/ fuel = 0 THEN <<>>
  ELSE <<p>> \o ChainFrom(seg[p].p_next, fuel - 1)

\* where following p_next from p for at most fuel links ends
RECURSIVE ChainEnd(_, _)
ChainEnd(p, fuel) ==
  IF p = NULL \/ fuel = 0 THEN p
  ELSE ChainEnd(seg[p].p_next, fuel - 1)

\* the chain built so far and the chain returned
Chain == ChainFrom(p_first_segment, Len(seg))
Returned == ChainFrom(retval, Len(seg))

RECURSIVE ConcatText(_)
ConcatText(chain) ==
  IF chain = <<>> THEN <<>>
  ELSE seg[Head(chain)].psz_text \o ConcatText(Tail(chain))

\* the parse has returned and no allocation failed in it
DoneOk == pc = "done" /\ nFail = 0

\* an iteration of the scanner that neither failed nor crashed
StepOk == pc = "scan" /\ pc' = "scan" /\ nFail' = nFail

\* the text of segment p grows by exactly the character c
Appends(p, c) ==
  /\ p # NULL
  /\ seg' = [seg EXCEPT ![p].psz_text = Append(@, c)]

\* s[p..] begins with lit, ignoring case
BeginsWith(s, p, lit) ==
  /\ p + Len(lit) - 1 <= Len(s)
  /\ \A k \in 1..Len(lit) : tolower(s[p + k - 1]) = tolower(lit[k])

\* the markup the scanner is specified to recognize at index p of s, and the
\* index just past it (0 if there is none at p)
MarkupNames == { <<"b">>, <<"i">>, <<"u">>, <<"s">> }
PastOpenTag(s, p) ==
  IF \E n \in MarkupNames : BeginsWith(s, p, <<"<">> \o n \o <<">">>)
  THEN p + 3 ELSE 0
PastBr(s, p) ==
  IF BeginsWith(s, p, <<"<","b","r","/",">">>) THEN p + 5 ELSE 0
PastFont(s, p) ==
  IF BeginsWith(s, p, <<"<","f","o","n","t"," ">>)
  THEN (IF strchr(s, p, ">") # NULL THEN strchr(s, p, ">") + 1 ELSE Len(s) + 1)
  ELSE 0
PastClosingTag(s, p) ==
  IF \E n \in MarkupNames \cup { <<"f","o","n","t">> } :
       BeginsWith(s, p, <<"<","/">> \o n \o <<">">>)
  THEN strchr(s, p, ">") + 1 ELSE 0
PastBlock(s, p) ==
  IF /\ At(s, p) = "{"
     /\ (At(s, p + 1) = "\\" \/ (At(s, p + 1) # NUL /\ At(s, p + 2) = ":"))
     /\ strchr(s, p, "}") # NULL
  THEN strchr(s, p, "}") + 1 ELSE 0
PastTag(s, p) ==
  IF PastBr(s, p) # 0 THEN PastBr(s, p)
  ELSE IF PastOpenTag(s, p) # 0 THEN PastOpenTag(s, p)
  ELSE IF PastFont(s, p) # 0 THEN PastFont(s, p)
  ELSE PastClosingTag(s, p)

\* the input with all recognized markup removed and a newline for each <br/>
RECURSIVE StripMarkup(_, _)
StripMarkup(s, p) ==
  IF p > Len(s) THEN <<>>
  ELSE IF PastBr(s, p) # 0 THEN <<"\n">> \o StripMarkup(s, PastBr(s, p))
  ELSE IF PastTag(s, p) # 0 THEN StripMarkup(s, PastTag(s, p))
  ELSE IF PastBlock(s, p) # 0 THEN StripMarkup(s, PastBlock(s, p))
  ELSE <<s[p]>> \o StripMarkup(s, p + 1)

\* some inputs of the claims
InBoldNormal ==
  <<"<","b",">","b","o","l","d","<","/","b",">"," ","n","o","r","m","a","l">>
InFontRed ==
  <<"<","f","o","n","t"," ","c","o","l","o","r","=","\"","R","e","d","\"",">",
    "R","e","d","<","/","f","o","n","t",">","P","l","a","i","n">>
InMarquee ==
  <<"<","m","a","r","q","u","e","e",">","x","<","/","m","a","r","q","u","e","e",">">>
InPlainText == <<"p","l","a","i","n"," ","t","e","x","t">>
InLines == <<"l","i","n","e","1","<","b","r","/",">","l","i","n","e","2">>
InTopLeft == <<"{","\\","a","n","7","}","T","o","p"," ","L","e","f","t">>

\* ----------------------------------------------------------------- claims

\* C1: when no allocation fails, ParseSubtitles returns a non-null chain with
\* at least one segment, which is acyclic and in which every segment has a
\* non-null text; for the empty input it is one segment with empty text.
C1_WellFormedChain ==
  DoneOk =>
    /\ retval # NULL
    /\ Len(Returned) >= 1
    /\ ChainEnd(retval, Len(seg)) = NULL
    /\ \A k \in DOMAIN Returned : seg[Returned[k]].psz_text # NullStr
    /\ input = <<>> =>
         (Len(Returned) = 1 /\ seg[Returned[1]].psz_text = <<>>)

C1_Witness ==
  DoneOk /\ Len(Returned) >= 3 /\ ChainEnd(retval, Len(seg)) = NULL

\* C2: the texts of the returned segments, concatenated in chain order, are
\* the input with every recognized tag and directive removed in full and a
\* newline for each <br/>.
C2_TextIsInputWithoutMarkup ==
  DoneOk => ConcatText(Returned) = StripMarkup(input, 1)

\* C3: a closing tag whose name is b, i, u, s or font (any case) is consumed,
\* pops the style stack and opens a new segment whose style is a copy of the
\* new stack top, or a default style when the stack is then empty.
AtClosingTag == PastClosingTag(input, pos) # 0
C3_ClosingTagPopsStyle ==
  [][ (StepOk /\ AtClosingTag /\ p_stack # <<>>) =>
        /\ pos' = PastClosingTag(input, pos)
        /\ Len(seg') = Len(seg) + 1
        /\ p_segment' = Len(seg')
        /\ p_stack' = Tail(p_stack)
        /\ seg'[p_segment'].style # NULL
        /\ sty'[seg'[p_segment'].style] =
             (IF p_stack' = <<>> THEN text_style_New
              ELSE sty[Head(p_stack')]) ]_vars

\* C4: the segment opened by <font color="NAME"> (quoted or not) has the font
\* color GetColor gives for NAME; for <font color="Red">Red</font>Plain that
\* segment has color 0xFF0000 and the text Red.
FontColorPrefix == <<"<","f","o","n","t"," ","c","o","l","o","r","=">>
IsFontColorInput ==
  /\ BeginsWith(input, 1, FontColorPrefix)
  /\ strchr(input, 1, ">") # NULL
FontColorName ==
  LET from == Len(FontColorPrefix) + 1
      quoted == At(input, from) \in {"'", "\""}
      first == IF quoted THEN from + 1 ELSE from
      last == IF quoted /\ strchr(input, first, At(input, from)) # NULL
              THEN strchr(input, first, At(input, from)) - 1
              ELSE strchr(input, 1, ">") - 1
  IN  SubSeq(input, first, last)
C4_FontColorResolved ==
  (DoneOk /\ IsFontColorInput) =>
    /\ Len(Returned) >= 2
    /\ seg[Returned[2]].style # NULL
    /\ sty[seg[Returned[2]].style].i_font_color = GetColor(FontColorName)
    /\ input = InFontRed =>
         /\ sty[seg[Returned[2]].style].i_font_color = 16711680
         /\ seg[Returned[2]].psz_text = <<"R","e","d">>

\* C5: at a < that begins no recognized tag the scanner appends the literal <
\* to the active segment, advances one character and opens no segment; an
\* input of unknown tags and plain text gives one segment, its text the input.
AtUnknownTag == At(input, pos) = "<" /\ PastTag(input, pos) = 0
OnlyUnknownTags(s) ==
  \A p \in 1..Len(s) :
    /\ s[p] \notin {"{", "\n"}
    /\ s[p] = "<" => PastTag(s, p) = 0
C5_UnknownTagStep ==
  [][ (StepOk /\ AtUnknownTag) =>
        /\ Appends(p_segment, "<")
        /\ pos' = pos + 1
        /\ p_segment' = p_segment
        /\ UNCHANGED << sty, p_stack >> ]_vars
C5_UnknownTagResult ==
  (DoneOk /\ OnlyUnknownTags(input)) =>
    /\ Returned = <<1>>
    /\ seg[1].psz_text = input
C5_UnknownTagIsLiteral == []C5_UnknownTagResult /\ C5_UnknownTagStep

C5_Witness ==
  /\ DoneOk
  /\ input = InMarquee
  /\ Returned = <<1>>
  /\ seg[1].psz_text = InMarquee

\* C6: the first block {\anN}, N in 1..9, sets the alignment to
\* vertical[(N-1) div 3] | horizontal[(N-1) mod 3], vertical being (bottom,
\* 0, top) and horizontal (left, 0, right), and adds no text: {\an7}Top Left
\* gives top | left and the text Top Left.
AnDigits == {"1", "2", "3", "4", "5", "6", "7", "8", "9"}
AtAnBlock ==
  /\ \A k \in 1..4 : At(input, pos + k - 1) = <<"{", "\\", "a", "n">>[k]
  /\ At(input, pos + 4) \in AnDigits
  /\ At(input, pos + 5) = "}"
ClaimedVertical(n) ==
  IF (n - 1) \div 3 = 0 THEN {"BOTTOM"}
  ELSE IF (n - 1) \div 3 = 1 THEN {} ELSE {"TOP"}
ClaimedHorizontal(n) ==
  IF (n - 1) % 3 = 0 THEN {"LEFT"}
  ELSE IF (n - 1) % 3 = 1 THEN {} ELSE {"RIGHT"}
ClaimedAlign(c) ==
  ClaimedVertical(DigitValue(c)) \cup ClaimedHorizontal(DigitValue(c))
C6_AnStep ==
  [][ (pc = "scan" /\ AtAnBlock /\ ~b_has_align) =>
        /\ pc' = "scan"
        /\ pi_align' = ClaimedAlign(At(input, pos + 4))
        /\ pos' = pos + 6
        /\ UNCHANGED << seg, sty, p_segment, p_stack >> ]_vars
C6_AnResult ==
  (DoneOk /\ input = InTopLeft) =>
    /\ pi_align = {"TOP", "LEFT"}
    /\ ConcatText(Returned) = <<"T","o","p"," ","L","e","f","t">>
C6_AlignmentDirective == []C6_AnResult /\ C6_AnStep

C6_Witness ==
  /\ DoneOk
  /\ input = InTopLeft
  /\ b_has_align
  /\ pi_align = {"TOP", "LEFT"}

\* C7: the alignment is written at most once in a parse: once a directive
\* has set it nothing changes it, and while none has it is the caller's value.
C7_SetOnce ==
  [][ /\ pi_align' # pi_align => (~b_has_align /\ b_has_align')
      /\ b_has_align => b_has_align' ]_vars
C7_CallerValueKept == ~b_has_align => pi_align = align0
C7_AlignmentWrittenOnce == []C7_CallerValueKept /\ C7_SetOnce

C7_Witness ==
  /\ pc = "done"
  /\ input = <<"{","\\","a","n","7","}","{","\\","a","n","3","}">>
  /\ b_has_align
  /\ pi_align = {"TOP", "LEFT"}
  /\ pi_align # align0

\* C8: an input without < and { gives one segment whose text is the input,
\* which has no style, and leaves the alignment and the style stack as they
\* were.
IsPlain(s) == \A p \in 1..Len(s) : s[p] \notin {"<", "{"}
C8_PlainText ==
  (DoneOk /\ IsPlain(input)) =>
    /\ Returned = <<1>>
    /\ Len(seg) = 1
    /\ seg[1].psz_text = input
    /\ seg[1].style = NULL
    /\ sty = <<>>
    /\ p_stack = <<>>
    /\ pi_align = align0

C8_Witness ==
  /\ DoneOk
  /\ input = InPlainText
  /\ seg[1].psz_text = InPlainText

\* C9: a newline character and a <br/> tag in any letter case each append
\* one newline to the active segment and move the cursor by 1 and by 5; they
\* open no segment and leave the style stack alone: line1<br/>line2 is one
\* segment with the text line1\nline2.
AtBr == BeginsWith(input, pos, <<"<","b","r","/",">">>)
C9_NewlineStep ==
  [][ (StepOk /\ (At(input, pos) = "\n" \/ AtBr)) =>
        /\ Appends(p_segment, "\n")
        /\ pos' = pos + (IF AtBr THEN 5 ELSE 1)
        /\ p_segment' = p_segment
        /\ UNCHANGED << sty, p_stack >> ]_vars
C9_NewlineResult ==
  (DoneOk /\ input = InLines) =>
    /\ Returned = <<1>>
    /\ seg[1].psz_text =
         <<"l","i","n","e","1","\n","l","i","n","e","2">>
C9_NewlineAndBr == []C9_NewlineResult /\ C9_NewlineStep

C9_Witness ==
  /\ DoneOk
  /\ input = <<"a","<","B","R","/",">","b","<","b","R","/",">">>
  /\ seg[1].psz_text = <<"a","\n","b","\n">>

\* C10: when an allocation fails the parse stops, the chain built so far is
\* released and NULL is returned: no chain that lacks a character, a style
\* or a segment is returned and no null pointer is dereferenced.
C10_FailureAbortsParse ==
  /\ pc # "crash"
  /\ (pc = "done" /\ nFail > 0) =>
       /\ retval = NULL
       /\ (chain_deleted \/ p_first_segment = NULL)

\* a without its newlines is b without its newlines with characters left out
RECURSIVE IsSubsequence(_, _, _, _)
IsSubsequence(a, i, b, j) ==
  IF i > Len(a) THEN TRUE
  ELSE IF a[i] = "\n" THEN IsSubsequence(a, i + 1, b, j)
  ELSE IF j > Len(b) THEN FALSE
  ELSE IF a[i] = b[j] THEN IsSubsequence(a, i + 1, b, j + 1)
  ELSE IsSubsequence(a, i, b, j + 1)

\* C11: malformed markup never makes the parse fail: while no allocation has
\* failed no iteration ends the parse abnormally, and the parse then returns
\* a non-null chain whose text consists of characters of the input in their
\* order (the rest being discarded) and of the newlines of <br/>.
C11_MalformedMarkupNeverFails ==
  nFail = 0 =>
    /\ pc # "crash"
    /\ pc = "done" =>
         /\ retval # NULL
         /\ IsSubsequence(ConcatText(Returned), 1, input, 1)

\* C12: PopStyle is never executed on an empty style stack: an iteration at a
\* closing tag of a recognized name met with an empty stack, no allocation
\* having failed, does not dereference a null frame, and the parses of
\* </b> and <b>x</b></b> return a chain.
InStrayClose == <<"<","/","b",">">>
InDoubleClose == <<"<","b",">","x","<","/","b",">","<","/","b",">">>
C12_ClosingStep ==
  [][ (pc = "scan" /\ AtClosingTag /\ p_stack = <<>> /\ nFail' = 0) =>
        pc' = "scan" ]_vars
C12_ClosingResult ==
  (nFail = 0 /\ input \in {InStrayClose, InDoubleClose}) =>
    /\ pc # "crash"
    /\ pc = "done" => retval # NULL
C12_NoPopOnEmptyStack == []C12_ClosingResult /\ C12_ClosingStep

C12_Witness ==
  /\ DoneOk
  /\ input = InStrayClose
  /\ p_stack = <<>>
  /\ retval # NULL
  /\ ConcatText(Returned) = InStrayClose

\* C13: the scan terminates at the end of the input: every iteration leaves
\* the cursor within the input or on its terminator, an iteration after
\* which the scan goes on has moved it forward by at least one character, a
\* chain is returned only with the cursor on the terminator; the distance
\* to the terminator thus decreases in every iteration and the loop ends
\* after at most as many iterations as the input has characters.
C13_Progress ==
  [][ pc = "scan" =>
        /\ pos' >= pos
        /\ pos' <= Len(input) + 1
        /\ pc' = "scan" => pos' > pos ]_vars
C13_EndOfInput ==
  /\ pos \in 1..(Len(input) + 1)
  /\ (pc = "done" /\ retval # NULL) => At(input, pos) = NUL
C13_ScanTerminates == []C13_EndOfInput /\ C13_Progress

C13_Witness ==
  /\ DoneOk
  /\ input = InFontRed
  /\ pos = Len(input) + 1
  /\ retval # NULL

\* C14: whenever the parse returns NULL the caller's alignment is the value
\* it had at the call, also when a {\anN} directive was scanned before the
\* allocation that failed.
C14_AlignmentKeptOnFailure ==
  (pc = "done" /\ retval = NULL) => pi_align = align0

\* the {Y:...} block at index p of s and the styles it pushes: i, b and u are
\* tested in turn, each on the character after the one just matched
IsYBlockAt(s, p) ==
  /\ At(s, p) = "{"
  /\ At(s, p + 1) \in {"Y", "y"}
  /\ At(s, p + 2) = ":"
  /\ strchr(s, p, "}") # NULL
YPushes(s, p) ==
  LET i == IF At(s, p + 3) = "i" THEN 1 ELSE 0
      b == IF At(s, p + 3 + i) = "b" THEN 1 ELSE 0
      u == IF At(s, p + 3 + i + b) = "u" THEN 1 ELSE 0
  IN  i + b + u

\* the recognized markup of s from index p on, added to the count c: open
\* the open tags (a <font tag, and each style a {Y:...} block pushes,
\* included), close the closing tags of a recognized name, depth the open
\* tags not yet closed
NoTags == [open |-> 0, close |-> 0, depth |-> 0]
RECURSIVE TagCount(_, _, _)
TagCount(s, p, c) ==
  IF p > Len(s) THEN c
  ELSE IF PastBr(s, p) # 0 THEN TagCount(s, PastBr(s, p), c)
  ELSE IF PastOpenTag(s, p) # 0 \/ PastFont(s, p) # 0
    THEN TagCount(s, PastTag(s, p),
                  [c EXCEPT !.open = @ + 1, !.depth = @ + 1])
  ELSE IF PastClosingTag(s, p) # 0
    THEN TagCount(s, PastClosingTag(s, p),
                  [c EXCEPT !.close = @ + 1,
                            !.depth = IF @ > 0 THEN @ - 1 ELSE 0])
  ELSE IF PastBlock(s, p) # 0
    THEN TagCount(s, PastBlock(s, p),
                  IF IsYBlockAt(s, p)
                  THEN [c EXCEPT !.open = @ + YPushes(s, p),
                                 !.depth = @ + YPushes(s, p)]
                  ELSE c)
  ELSE TagCount(s, p + 1, c)

\* C15: at every point of the scan the depth of the style stack is the
\* number of recognized open tags scanned so far that no recognized closing
\* tag has closed; after <b>x</b> it is 0.
InBoldClosed == <<"<","b",">","x","<","/","b",">">>
C15_StackDepth ==
  (nFail = 0 /\ pc \in {"scan", "done"}) =>
    /\ Len(p_stack) = TagCount(SubSeq(input, 1, pos - 1), 1, NoTags).depth
    /\ (pc = "done" /\ input = InBoldClosed) => p_stack = <<>>

\* C16: a segment is opened once per recognized open tag and once per
\* recognized closing tag and by nothing else: the returned chain has
\* 1 + open tags + closing tags segments.
C16_SegmentCount ==
  DoneOk =>
    Len(Returned) = 1 + TagCount(input, 1, NoTags).open
                      + TagCount(input, 1, NoTags).close

\* C17: the segment opened by <b>, <i>, <u> or <s> (any case) has a new
\* style that is a copy of the style on top of the stack before the push, or
\* a default style when the stack is empty, with the flag of the tag added:
\* no flag of the enclosing style is lost, and in <b><i>x the text x is bold
\* and italic.
AtOpenTag == PastOpenTag(input, pos) # 0
FlagOfTag(c) ==
  IF tolower(c) = "b" THEN "STYLE_BOLD"
  ELSE IF tolower(c) = "i" THEN "STYLE_ITALIC"
  ELSE IF tolower(c) = "u" THEN "STYLE_UNDERLINE"
  ELSE "STYLE_STRIKEOUT"
StyleBeforePush ==
  IF p_stack = <<>> THEN text_style_New ELSE sty[Head(p_stack)]
InBoldItalic == <<"<","b",">","<","i",">","x">>
C17_OpenTagStep ==
  [][ (StepOk /\ AtOpenTag) =>
        /\ Len(seg') = Len(seg) + 1
        /\ p_segment' = Len(seg')
        /\ Len(sty') = Len(sty) + 1
        /\ seg'[p_segment'].style = Len(sty')
        /\ p_stack' = <<Len(sty')>> \o p_stack
        /\ sty'[Len(sty')] =
             [StyleBeforePush EXCEPT
                !.i_style_flags = @ \cup {FlagOfTag(At(input, pos + 1))}]
        /\ StyleBeforePush.i_style_flags \subseteq sty'[Len(sty')].i_style_flags
        /\ pos' = pos + 3 ]_vars
C17_OpenTagResult ==
  (DoneOk /\ input = InBoldItalic) =>
    /\ Len(Returned) = 3
    /\ seg[Returned[3]].psz_text = <<"x">>
    /\ sty[seg[Returned[3]].style].i_style_flags
         = {"STYLE_BOLD", "STYLE_ITALIC"}
C17_PushedStyleIsCumulative == []C17_OpenTagResult /\ C17_OpenTagStep

C17_Witness ==
  /\ DoneOk
  /\ input = InBoldItalic
  /\ Len(p_stack) = 2
  /\ sty[seg[Returned[2]].style].i_style_flags = {"STYLE_BOLD"}
  /\ sty[seg[Returned[3]].style].i_style_flags
       = {"STYLE_BOLD", "STYLE_ITALIC"}

\* C18: no style is the style of two segments, every style a stack frame
\* refers to is the style of exactly one segment, and no iteration changes
\* the style of a segment that existed before it.
SegmentsWithStyle(p_style) == { i \in DOMAIN seg : seg[i].style = p_style }
C18_NoSharedStyle ==
  /\ \A i, j \in DOMAIN seg :
       (i # j /\ seg[i].style # NULL) => seg[i].style # seg[j].style
  /\ \A k \in DOMAIN p_stack :
       Cardinality(SegmentsWithStyle(p_stack[k])) = 1
C18_EarlierStylesKept ==
  [][ \A i \in DOMAIN seg :
        seg[i].style # NULL =>
          /\ seg'[i].style = seg[i].style
          /\ sty'[seg[i].style] = sty[seg[i].style] ]_vars
C18_StylesNotAliased == []C18_NoSharedStyle /\ C18_EarlierStylesKept

C18_Witness ==
  /\ DoneOk
  /\ input = <<"<","u",">","x","<","S",">","y">>
  /\ Len(Returned) = 3
  /\ seg[Returned[2]].style # seg[Returned[3]].style
  /\ p_stack = <<seg[Returned[3]].style, seg[Returned[2]].style>>
  /\ sty[seg[Returned[2]].style].i_style_flags = {"STYLE_UNDERLINE"}
  /\ sty[seg[Returned[3]].style].i_style_flags
       = {"STYLE_UNDERLINE", "STYLE_STRIKEOUT"}

\* C19: in a <font tag the attribute names outline-color, shadow-color,
\* back-color, outline-level and shadow-level are recognized and set the
\* outline color, shadow color, background color, outline width and shadow
\* width of the style of the segment the tag opens.
FontAttributeInput(name, value) ==
  <<"<","f","o","n","t"," ">> \o name \o <<"=","\"">> \o value
    \o <<"\"",">","x">>
InOutlineColor ==
  FontAttributeInput(<<"o","u","t","l","i","n","e","-","c","o","l","o","r">>,
                     <<"R","e","d">>)
InShadowColor ==
  FontAttributeInput(<<"s","h","a","d","o","w","-","c","o","l","o","r">>,
                     <<"R","e","d">>)
InBackColor ==
  FontAttributeInput(<<"b","a","c","k","-","c","o","l","o","r">>,
                     <<"R","e","d">>)
InOutlineLevel ==
  FontAttributeInput(<<"o","u","t","l","i","n","e","-","l","e","v","e","l">>,
                     <<"2">>)
InShadowLevel ==
  FontAttributeInput(<<"s","h","a","d","o","w","-","l","e","v","e","l">>,
                     <<"2">>)
FontStyle == sty[seg[Returned[2]].style]
C19_HyphenatedAttributesSet ==
  DoneOk =>
    /\ input = InOutlineColor =>
         FontStyle.i_outline_color # text_style_New.i_outline_color
    /\ input = InShadowColor =>
         FontStyle.i_shadow_color # text_style_New.i_shadow_color
    /\ input = InBackColor =>
         FontStyle.i_background_color # text_style_New.i_background_color
    /\ input = InOutlineLevel =>
         FontStyle.i_outline_width # text_style_New.i_outline_width
    /\ input = InShadowLevel =>
         FontStyle.i_shadow_width # text_style_New.i_shadow_width

\* C20: after a <font tag the cursor is on the first > that follows "<font "
\* or, when there is none, on the terminator: the attributes consume nothing
\* after that >.
AtFontTag == BeginsWith(input, pos, <<"<","f","o","n","t"," ">>)
C20_FontTagEndsAtGt ==
  [][ (StepOk /\ AtFontTag) =>
        pos' = SkipUntil(input, pos, ">") ]_vars

\* the attribute written at the cursor: where its name begins and ends
NameBegin == SkipBlank(input, pos)
NameEnd == SkipIsalpha(input, NameBegin)

\* C21: ConsumeAttribute reports the end of the attributes whenever the
\* character at the cursor, leading spaces skipped, is not a letter, be it
\* the terminator, a > or a quote, and it never returns an empty name.
C21_NoNameStep ==
  [][ (pc = "attributes" /\ ~isalpha(At(input, NameBegin))) =>
        /\ pc' = "attributes_end"
        /\ psz_attribute_name' = NullStr
        /\ pos' = pos ]_vars
C21_NameNotEmpty == psz_attribute_name # <<>>
C21_EndOfAttributes == []C21_NameNotEmpty /\ C21_NoNameStep

\* the attribute at the cursor as it is written: a name of letters directly
\* followed by =, then a value in quotes or a bare value
HasNameAndEquals ==
  /\ NameEnd > NameBegin
  /\ At(input, NameEnd) = "="
ValueBegin == NameEnd + 1
IsQuotedValue == At(input, ValueBegin) \in {"'", "\""}
ClosingQuote == strchr(input, ValueBegin + 1, At(input, ValueBegin))
NextLetter == SkipUntilIsalpha(input, ValueBegin)
WrittenName == SubSeq(input, NameBegin, NameEnd - 1)

\* C22: for name="value" and name='value' ConsumeAttribute returns the name
\* and, as value, the characters between the quotes; for name=value it
\* returns the text after = up to the next letter.
C22_QuotedAndBareValues ==
  [][ (pc = "attributes" /\ HasNameAndEquals /\ nFail' = nFail) =>
        /\ (IsQuotedValue /\ ClosingQuote # NULL) =>
             /\ pc' = "attributes"
             /\ psz_attribute_name' = WrittenName
             /\ psz_attribute_value' =
                  SubSeq(input, ValueBegin + 1, ClosingQuote - 1)
        /\ (~IsQuotedValue /\ ~isspace(At(input, ValueBegin))
              /\ At(input, NextLetter) # NUL) =>
             /\ pc' = "attributes"
             /\ psz_attribute_name' = WrittenName
             /\ psz_attribute_value' =
                  SubSeq(input, ValueBegin, NextLetter - 1) ]_vars

\* the string ends before the value of the attribute at the cursor ends: no
\* = follows the name, or the closing quote, or for a bare value the letter
\* that ends it, is missing
EqualsSign == strchr(input, NameEnd, "=")
AfterEquals == SkipIsspace(input, EqualsSign + 1)
ValueUnterminated ==
  /\ NameEnd > NameBegin
  /\ \/ EqualsSign = NULL
     \/ /\ EqualsSign # NULL
        /\ IF At(input, AfterEquals) \in {"'", "\""}
           THEN strchr(input, AfterEquals + 1, At(input, AfterEquals)) = NULL
           ELSE At(input, SkipUntilIsalpha(input, AfterEquals)) = NUL

\* C23: when the string ends before the value of an attribute is terminated,
\* or before any = is found, ConsumeAttribute reports the end of the
\* attributes, leaves the cursor where it was, returns neither name nor
\* value and no style field is changed.
C23_UnterminatedValue ==
  [][ (pc = "attributes" /\ ValueUnterminated) =>
        /\ pc' = "attributes_end"
        /\ pos' = pos
        /\ psz_attribute_name' = NullStr
        /\ psz_attribute_value' = psz_attribute_value
        /\ sty' = sty ]_vars

\* the flags the tests of a {Y:...} block at index p of s match
YFlags(s, p) ==
  LET i == IF At(s, p + 3) = "i" THEN 1 ELSE 0
      b == IF At(s, p + 3 + i) = "b" THEN 1 ELSE 0
      u == IF At(s, p + 3 + i + b) = "u" THEN 1 ELSE 0
  IN  (IF i = 1 THEN {"STYLE_ITALIC"} ELSE {})
        \cup (IF b = 1 THEN {"STYLE_BOLD"} ELSE {})
        \cup (IF u = 1 THEN {"STYLE_UNDERLINE"} ELSE {})
AtYBlock == IsYBlockAt(input, pos)
\* the segments that exist keep their text, the new ones are empty
NoTextEmitted ==
  /\ \A k \in DOMAIN seg : seg'[k].psz_text = seg[k].psz_text
  /\ \A k \in (Len(seg) + 1)..Len(seg') : seg'[k].psz_text = <<>>
InYBlocks ==
  <<"{","Y",":","b","}","x","{","y",":","i","b","u","}","y">>

\* C24 as stated: a {Y:...} or {y:...} block looks at the one character
\* after the colon only, pushes at most one style and opens at most one
\* segment (italic for i, bold for b, underline for u), moves the cursor
\* past the closing } and emits nothing.
C24_YBlockSingleTest ==
  [][ (StepOk /\ AtYBlock) =>
        /\ Len(seg') =
             Len(seg) + (IF At(input, pos + 3) \in {"i", "b", "u"} THEN 1 ELSE 0)
        /\ Len(p_stack') <= Len(p_stack) + 1
        /\ pos' = strchr(input, pos, "}") + 1
        /\ NoTextEmitted ]_vars

\* C24 amended: the block tests the character after the colon for i, the
\* next character not yet matched for b and then for u; each match pushes
\* one style and opens one segment with the flag added to the style on top
\* of the stack, so that up to three segments are opened; the cursor moves
\* past the closing } and nothing is emitted.
C24_YBlockTestsInTurn ==
  [][ (StepOk /\ AtYBlock) =>
        /\ Len(seg') = Len(seg) + YPushes(input, pos)
        /\ Len(p_stack') = Len(p_stack) + YPushes(input, pos)
        /\ YPushes(input, pos) > 0 =>
             /\ p_segment' = Len(seg')
             /\ sty'[seg'[p_segment'].style].i_style_flags =
                  StyleBeforePush.i_style_flags \cup YFlags(input, pos)
        /\ YPushes(input, pos) = 0 =>
             UNCHANGED << seg, sty, p_segment, p_stack >>
        /\ pos' = strchr(input, pos, "}") + 1
        /\ NoTextEmitted ]_vars

C24_Witness ==
  /\ DoneOk
  /\ input = InYBlocks
  /\ Len(Returned) = 5
  /\ seg[Returned[5]].psz_text = <<"y">>
  /\ sty[seg[Returned[5]].style].i_style_flags =
       {"STYLE_BOLD", "STYLE_ITALIC", "STYLE_UNDERLINE"}

\* a {\anN} directive with N in 1..9 at the cursor
ValidAnAtCursor ==
  /\ At(input, pos + 2) = "a"
  /\ At(input, pos + 3) = "n"
  /\ At(input, pos + 4) \in {"1", "2", "3", "4", "5", "6", "7", "8", "9"}
  /\ At(input, pos + 5) = "}"
\* the cursor is on a {\...} block that does not set the alignment, or on
\* a {x:y} block other than {Y:...}, and a } follows
AtSkippedBlock ==
  /\ pc = "scan"
  /\ At(input, pos) = "{"
  /\ \E k \in pos..Len(input) : input[k] = "}"
  /\ \/ At(input, pos + 1) = "\\" /\ (b_has_align \/ ~ValidAnAtCursor)
     \/ /\ At(input, pos + 1) \notin {"\\", "Y", "y"}
        /\ At(input, pos + 2) = ":"
\* index of the first } at or after the cursor
FirstBrace ==
  CHOOSE k \in pos..Len(input) :
    input[k] = "}" /\ \A j \in pos..(k - 1) : input[j] # "}"
InSkippedBlocks ==
  <<"{","\\","b","1","}","{","\\","a","n","9","}","{","\\","a","n","1","}","{","c",":","x","}","a">>

\* C25: a {\...} block that is not the first valid {\anN}, and a {x:y}
\* block, are skipped up to and including the first } and leave the chain,
\* the texts, the styles, the style stack and the alignment as they were.
C25_BlockSkipped ==
  [][ AtSkippedBlock =>
        /\ pos' = FirstBrace + 1
        /\ pc' = "scan"
        /\ UNCHANGED << seg, sty, p_first_segment, p_segment, p_stack,
                        pi_align, b_has_align >> ]_vars

\* {\b1}, the second valid directive {\an1} and {c:x} have been skipped
C25_Witness ==
  /\ DoneOk
  /\ input = InSkippedBlocks
  /\ pi_align = {"TOP", "RIGHT"}
  /\ ConcatText(Returned) = <<"a">>

\* the two strings have the same letters when written in capitals
SameIgnoringCase(a, b) ==
  [k \in DOMAIN a |-> toupper(a[k])] = [k \in DOMAIN b |-> toupper(b[k])]
\* entry k of the table is the first one named like the argument
FirstEntryNamed(k, psz_color) ==
  /\ SameIgnoringCase(psz_color, p_html_colors[k].psz_name)
  /\ \A j \in 1..(k - 1) :
       ~SameIgnoringCase(psz_color, p_html_colors[j].psz_name)
\* what line 869 has stored
ColorStored == sty[seg[p_segment].style].i_font_color
ColorCase(psz_color, value) ==
  psz_attribute_value = psz_color => ColorStored = value

\* C26: GetColor returns the value of the first table entry whose name is
\* the argument ignoring case, the whole string being compared, and 0 when
\* there is none.
C26_GetColorFirstExactMatch ==
  pc = "color_end" =>
    /\ \A k \in DOMAIN p_html_colors :
         FirstEntryNamed(k, psz_attribute_value) =>
           ColorStored = p_html_colors[k].i_value
    /\ (\A k \in DOMAIN p_html_colors :
          ~SameIgnoringCase(psz_attribute_value, p_html_colors[k].psz_name))
         => ColorStored = 0
    /\ ColorCase(<<"r","e","d">>, 16711680)
    /\ ColorCase(<<"A","Q","U","A">>, 65535)
    /\ ColorCase(<<"A","q","u">>, 0)
    /\ ColorCase(<<"A","q","u","a","x">>, 0)
    /\ ColorCase(<<"a","q","u","a","m","a","r","i","n","e">>, 8388564)
    /\ ColorCase(<<>>, 0)

\* Aqua, which the table holds twice, has been looked up in capitals
C26_Witness ==
  /\ pc = "color_end"
  /\ psz_attribute_value = <<"A","Q","U","A">>
  /\ Cardinality({ k \in DOMAIN p_html_colors :
                     SameIgnoringCase(psz_attribute_value,
                                      p_html_colors[k].psz_name) }) > 1
  /\ ColorStored = 65535

\* C27: no character beyond the terminator of the input is ever read, the
\* lookaheads of the brace tests included, also when the input ends in {
\* or in {x.
C27_NoReadPastTerminator == oob = FALSE

\* C28: when ParseSubtitles has returned, with the chain or with NULL after
\* the chain was deleted, no frame pushed by DuplicateAndPushStyle is left:
\* every frame has been popped and freed.
C28_FramesFreedOnReturn == pc = "done" => p_stack = <<>>

====
